---- MODULE Spec2Model ----
(***************************************************************************)
(* gfontapi: resolve a font family against the Google Fonts catalog,       *)
(* download every variant concurrently, convert each to woff2 and write a  *)
(* fonts.css.  The model follows src/src/main.rs: main, fetch_font_data,   *)
(* download_font_files (the spawn loop, the spawned tasks, the join loop), *)
(* write_css_file_for_font, transpile_font_weight and the FontStyles enum. *)
(***************************************************************************)
EXTENDS Integers, Sequences, FiniteSets, TLC

(***************************************************************************)
(* Bounds of the model.                                                    *)
(***************************************************************************)
\* largest number of entries of `files` in a multi-variant family
MaxVariants == 2

(***************************************************************************)
(* Strings.  A name is kept as the sequence of its words; the conversions  *)
(* of the code (to_lowercase, replace(' ', "-"), split('-'), upper-casing  *)
(* of the first character, strum's kebab-case) act on the words.           *)
(***************************************************************************)
RECURSIVE JoinWith(_, _)
JoinWith(words, sep) ==
    IF words = <<>> THEN ""
    ELSE IF Len(words) = 1 THEN words[1]
    ELSE words[1] \o sep \o JoinWith(Tail(words), sep)

\* str::to_lowercase on one word
ToLowercase(w) ==
    CASE w = "Thin" -> "thin"
      [] w = "Extra" -> "extra"
      [] w = "Light" -> "light"
      [] w = "Regular" -> "regular"
      [] w = "Medium" -> "medium"
      [] w = "Semi" -> "semi"
      [] w = "Bold" -> "bold"
      [] w = "Black" -> "black"
      [] w = "Italic" -> "italic"
      [] w = "Example" -> "example"
      [] w = "Sans" -> "sans"
      [] OTHER -> w

\* first character upper-cased, the rest kept (format_font_string's closure)
UpperFirst(w) ==
    CASE w = "example" -> "Example"
      [] w = "sans" -> "Sans"
      [] OTHER -> w

\* the conversions, word by word
LowerWords(words) == [i \in 1..Len(words) |-> ToLowercase(words[i])]
TitleWords(words) == [i \in 1..Len(words) |-> UpperFirst(words[i])]

(***************************************************************************)
(* enum FontStyles and its strum Display (serialize_all = "kebab-case").   *)
(* A variant is the sequence of the words of its identifier.               *)
(***************************************************************************)
Thin == <<"Thin">>
ThinItalic == <<"Thin", "Italic">>
ExtraLight == <<"Extra", "Light">>
ExtraLightItalic == <<"Extra", "Light", "Italic">>
Light == <<"Light">>
LightItalic == <<"Light", "Italic">>
Regular == <<"Regular">>
RegularItalic == <<"Regular", "Italic">>
Medium == <<"Medium">>
MediumItalic == <<"Medium", "Italic">>
SemiBold == <<"Semi", "Bold">>
SemiBoldItalic == <<"Semi", "Bold", "Italic">>
Bold == <<"Bold">>
BoldItalic == <<"Bold", "Italic">>
ExtraBold == <<"Extra", "Bold">>
ExtraBoldItalic == <<"Extra", "Bold", "Italic">>
Black == <<"Black">>
BlackItalic == <<"Black", "Italic">>

FontStyles ==
    { Thin, ThinItalic, ExtraLight, ExtraLightItalic, Light, LightItalic,
      Regular, RegularItalic, Medium, MediumItalic, SemiBold, SemiBoldItalic,
      Bold, BoldItalic, ExtraBold, ExtraBoldItalic, Black, BlackItalic }

\* serialize_all = "snake_case" in place of "kebab-case"
DisplayStyleSnake(style) == JoinWith(LowerWords(style), "_")

\* a Display that prints the first word of the identifier only
DisplayStyleFirstWord(style) == ToLowercase(style[1])

\* Display for FontStyles: the identifier's words, lower-cased, joined by '-'
DisplayStyle(style) == JoinWith(LowerWords(style), "-")

get_style_and_weight(style) ==
    CASE style = Black -> <<"normal", 900>>
      [] style = BlackItalic -> <<"italic", 900>>
      [] style = ExtraBold -> <<"normal", 800>>
      [] style = ExtraBoldItalic -> <<"italic", 800>>
      [] style = Bold -> <<"normal", 700>>
      [] style = BoldItalic -> <<"italic", 700>>
      [] style = SemiBold -> <<"normal", 600>>
      [] style = SemiBoldItalic -> <<"italic", 600>>
      [] style = Medium -> <<"normal", 500>>
      [] style = MediumItalic -> <<"italic", 500>>
      [] style = Regular -> <<"normal", 400>>
      [] style = RegularItalic -> <<"italic", 400>>
      [] style = Light -> <<"normal", 300>>
      [] style = LightItalic -> <<"italic", 300>>
      [] style = ExtraLight -> <<"normal", 200>>
      [] style = ExtraLightItalic -> <<"italic", 200>>
      [] style = Thin -> <<"normal", 100>>
      [] style = ThinItalic -> <<"italic", 100>>

(***************************************************************************)
(* transpile_font_weight: the 18-entry table and the lookup in it.         *)
(***************************************************************************)
font_weight_mappings ==
    ( "100" :> Thin @@ "100italic" :> ThinItalic
   @@ "200" :> ExtraLight @@ "200italic" :> ExtraLightItalic
   @@ "300" :> Light @@ "300italic" :> LightItalic
   @@ "regular" :> Regular @@ "italic" :> RegularItalic
   @@ "500" :> Medium @@ "500italic" :> MediumItalic
   @@ "600" :> SemiBold @@ "600italic" :> SemiBoldItalic
   @@ "700" :> Bold @@ "700italic" :> BoldItalic
   @@ "800" :> ExtraBold @@ "800italic" :> ExtraBoldItalic
   @@ "900" :> Black @@ "900italic" :> BlackItalic )

Ok(v) == [ok |-> TRUE, val |-> v]
Err(e) == [ok |-> FALSE, val |-> e]

\* a lookup that falls back to Regular for a token the table does not hold
transpile_font_weight_OrRegular(font_string) ==
    IF font_string \in DOMAIN font_weight_mappings
    THEN Ok(font_weight_mappings[font_string])
    ELSE Ok(Regular)

transpile_font_weight(font_string) ==
    IF font_string \in DOMAIN font_weight_mappings
    THEN Ok(font_weight_mappings[font_string])
    ELSE Err("Couldn't find the variant in the hashmap")

(***************************************************************************)
(* The environment: the catalog's answer and the family it describes.      *)
(***************************************************************************)
\* the catalog tokens of the table, and tokens the table does not hold
KnownTokens == DOMAIN font_weight_mappings
UnknownTokens == {"400", "999"}
TokenPool == KnownTokens \cup UnknownTokens

\* the tokens multi-variant families are built from
CorePool == {"regular", "700italic", "300", "400", "999"}

\* the key sets of `files` the catalog may answer with
Families ==
    { {t} : t \in TokenPool }
    \cup { F \in SUBSET CorePool : Cardinality(F) <= MaxVariants }

\* FontFamily.family of the catalog record, as its words
Family == <<"Example", "Sans">>

\* [status, body]: status 0 stands for a request that could not be sent
\* body "items": a parsable body whose first item has `files`; "empty_items":
\* a parsable body with items = []; "invalid": a body serde_json rejects
Responses ==
    [status : {0, 404}, body : {"invalid"}, files : {{}}]
    \cup [status : {200}, body : {"invalid", "empty_items"}, files : {{}}]
    \cup [status : {200, 404}, body : {"items"}, files : Families]

\* a file of the font directory
Path(stem, ext) == [stem |-> stem, ext |-> ext]

\* what an earlier run may have left in fonts.css
StaleCss == <<[family |-> "Old Font", src |-> Path("old-font-regular", "woff2"),
               style |-> "normal", weight |-> 400]>>

\* download_font_file.  "send_err": the request or File::create failed, no file
\* is written (lines 429-443); "stream_err": a chunk or a write failed after
\* the file was created (449-455); "bad_status": the server answered with a
\* non-OK status, whose body is streamed like any other; "ok"
DownloadOutcomes == {"send_err", "stream_err", "bad_status", "ok"}

\* convert_to_woff2.  "start_err": the tool could not be started (468-476);
\* "exit_fail": it was started and waiting for it failed or it exited without
\* success (478-484); "remove_err": it succeeded and remove_file failed
\* (486-487); "ok"
ConvertOutcomes == {"start_err", "exit_fail", "remove_err", "ok"}

VARIABLES
    response,        \* the catalog's answer to the one request
    cssAtStart,      \* whether the font directory held a fonts.css before the run
    pcMain,          \* where main is
    exitCode,        \* the process's exit code, -1 while it runs
    font_family,     \* main: the keys of font_family.files, {} before the fetch
    dirCreated,      \* create_dir_all(&font_dir) has succeeded
    todo,            \* download_font_files: keys the for loop has not visited
    pipeline,        \* download_font_files' return: [ret: "none"/"ok"/"err", tags]
    pc,              \* per variant: where its spawned task is
    font_style,      \* per variant: the FontStyles value its task captured
    dl,              \* per variant: outcome of download_font_file
    conv,            \* per variant: outcome of convert_to_woff2
    tmp,             \* per variant: the counter value read by `+= 1`
    progress_state,  \* ProgressState behind the Arc<Mutex<..>>
    mutex,           \* the variant whose task holds the guard, or "free"
    disk,            \* the font files of the font directory
    css,             \* fonts.css: [exists, text]
    joined,          \* variants whose JoinHandle the join loop has received
    reported,        \* variants for which the join loop printed an error
    cssIdx,          \* write_css_file_for_font: records visited so far
    cssResult,       \* its return value: "none", "ok" (the path), "err"
    cssWriteErrs     \* indices whose writeln! failed (and was printed)

vars == <<response, cssAtStart, pcMain, exitCode, font_family, dirCreated, todo, pipeline,
          pc, font_style, dl, conv, tmp, progress_state, mutex, disk, css,
          joined, reported, cssIdx, cssResult, cssWriteErrs>>

mainVars == <<pcMain, exitCode, font_family, dirCreated, todo, pipeline>>
taskVars == <<pc, font_style, dl, conv, tmp>>
stateVars == <<progress_state, mutex>>
joinVars == <<joined, reported>>
cssVars == <<css, cssIdx, cssResult, cssWriteErrs>>

\* u16 arithmetic of downloaded_count
U16(n) == n % 65536

Init ==
    /\ response \in Responses
    /\ pcMain = "fetch"
    /\ exitCode = -1
    /\ font_family = {}
    /\ dirCreated = FALSE
    /\ todo = {}
    /\ pipeline = [ret |-> "none", tags |-> <<>>]
    /\ pc = [v \in TokenPool |-> "unspawned"]
    /\ font_style = [v \in TokenPool |-> <<>>]
    /\ dl = [v \in TokenPool |-> "none"]
    /\ conv = [v \in TokenPool |-> "none"]
    /\ tmp = [v \in TokenPool |-> 0]
    /\ progress_state = [downloaded_count |-> 0, downloaded_files |-> <<>>]
    /\ mutex = "free"
    /\ disk = {}
    /\ css \in {[exists |-> FALSE, text |-> <<>>], [exists |-> TRUE, text |-> StaleCss]}
    /\ cssAtStart = css.exists
    /\ joined = {}
    /\ reported = {}
    /\ cssIdx = 0
    /\ cssResult = "none"
    /\ cssWriteErrs = {}

(***************************************************************************)
(* main, up to the call of download_font_files.                            *)
(***************************************************************************)
\* fetch_font_data without the test of response.status()
fetch_font_data_NoStatusCheck(resp) ==
    IF resp.status = 0 THEN "err"
    ELSE IF resp.body = "invalid" THEN "err"
    ELSE IF resp.body = "empty_items" THEN "panic"
    ELSE "ok"

\* fetch_font_data: "err" (an Err is returned), "panic" (items[0] on an empty
\* vector) or "ok"
fetch_font_data(resp) ==
    IF resp.status = 0 THEN "err"
    ELSE IF resp.status # 200 THEN "err"
    ELSE IF resp.body = "invalid" THEN "err"
    ELSE IF resp.body = "empty_items" THEN "panic"
    ELSE "ok"

\* family.to_lowercase().replace(' ', "-"), as words and as the string
family_slug == LowerWords(Family)
family_name == JoinWith(family_slug, "-")

\* format_font_string on the leaf of font_dir
format_font_string(words) == JoinWith(TitleWords(words), " ")

\* main line 158: the `?` after fetch_font_data ends the process
FetchAfter(r) ==
    IF r = "ok"
    THEN /\ font_family' = response.files
         /\ pcMain' = "mkdir"
         /\ exitCode' = exitCode
    ELSE /\ font_family' = font_family
         /\ pcMain' = "exited"
         /\ exitCode' = IF r = "panic" THEN 101 ELSE 1

FetchFontData ==
    /\ pcMain = "fetch"
    /\ FetchAfter(fetch_font_data(response))
    /\ UNCHANGED <<response, cssAtStart, dirCreated, todo, pipeline>>
    /\ UNCHANGED <<taskVars, stateVars, disk, joinVars, cssVars>>

\* main line 166: create_dir_all(&font_dir)?
CreateDir ==
    /\ pcMain = "mkdir"
    /\ \E ok \in BOOLEAN :
        IF ok
        THEN /\ dirCreated' = TRUE
             /\ pcMain' = "pipeline"
             /\ exitCode' = exitCode
        ELSE /\ dirCreated' = dirCreated
             /\ pcMain' = "exited"
             /\ exitCode' = 1
    /\ UNCHANGED <<response, cssAtStart, font_family, todo, pipeline>>
    /\ UNCHANGED <<taskVars, stateVars, disk, joinVars, cssVars>>

(***************************************************************************)
(* download_font_files: prologue and the spawn loop (lines 255-320).       *)
(***************************************************************************)
BeginPipeline ==
    /\ pcMain = "pipeline"
    /\ progress_state' = [downloaded_count |-> 0, downloaded_files |-> <<>>]
    /\ mutex' = "free"
    /\ todo' = font_family
    /\ pcMain' = "spawn"
    /\ UNCHANGED <<response, cssAtStart, exitCode, font_family, dirCreated, pipeline>>
    /\ UNCHANGED <<taskVars, disk, joinVars, cssVars>>

\* one iteration of `for (variant, url) in &font_family.files` (HashMap order):
\* the `?` of line 281 returns from download_font_files, line 291 spawns
SpawnAfter(variant, r) ==
    IF r.ok
    THEN /\ font_style' = [font_style EXCEPT ![variant] = r.val]
         /\ pc' = [pc EXCEPT ![variant] = "download"]
         /\ todo' = todo \ {variant}
         /\ UNCHANGED <<pcMain, pipeline>>
    ELSE /\ pipeline' = [ret |-> "err", tags |-> <<>>]
         /\ pcMain' = "ret_err"
         /\ UNCHANGED <<font_style, pc, todo>>

SpawnNext ==
    /\ pcMain = "spawn"
    /\ \E variant \in todo : SpawnAfter(variant, transpile_font_weight(variant))
    /\ UNCHANGED <<response, cssAtStart, exitCode, font_family, dirCreated>>
    /\ UNCHANGED <<dl, conv, tmp, stateVars, disk, joinVars, cssVars>>

SpawnDone ==
    /\ pcMain = "spawn"
    /\ todo = {}
    /\ pcMain' = "join"
    /\ UNCHANGED <<response, cssAtStart, exitCode, font_family, dirCreated, todo, pipeline>>
    /\ UNCHANGED <<taskVars, stateVars, disk, joinVars, cssVars>>

(***************************************************************************)
(* The spawned task (lines 291-317).  Tasks run until the process ends.    *)
(***************************************************************************)
Running(v, at) == pcMain # "exited" /\ pc[v] = at

\* output_dir.join(format!("{}-{}.ttf", family_name, font_style)), line 289,
\* for each style the spawn loop can hand to a task
OutputPaths ==
    [style \in FontStyles |->
        Path(family_name \o "-" \o DisplayStyle(style), "ttf")]

\* the output_path moved into the task of v
output_path(v) == OutputPaths[font_style[v]]

\* what woff2_compress writes for an input path
woff2_path(ttf_path) == Path(ttf_path.stem, "woff2")

\* the Result of download_font_file: the status of the response is not looked at
DownloadResult(o) == IF o \in {"ok", "bad_status"} THEN "ok" ELSE "err"

\* download_font_file: File::create is reached once the request was sent
Download(v) ==
    /\ Running(v, "download")
    /\ \E o \in DownloadOutcomes :
        /\ dl' = [dl EXCEPT ![v] = o]
        /\ disk' = IF o = "send_err"
                   THEN disk
                   ELSE disk \cup {output_path(v)}
    /\ pc' = [pc EXCEPT ![v] = "convert"]
    /\ UNCHANGED <<response, cssAtStart, mainVars, font_style, conv, tmp, stateVars>>
    /\ UNCHANGED <<css, joinVars, cssIdx, cssResult, cssWriteErrs>>

\* a task that goes on to the counter whatever convert_to_woff2 returned
AfterConvertAlways(o) == "lock"

\* line 302: `convert_to_woff2(&output_path)?` returns from the task on Err
AfterConvert(o) == IF o = "ok" THEN "lock" ELSE "done"

\* a convert_to_woff2 that goes on to remove_file without process.wait()
AfterStartNoWait == "remove"

\* lines 478-480: after Popen::create the process is waited for
AfterStart == "wait"

\* lines 468-476: Popen::create(["./woff2_compress", ttf_path])
ConvertStart(v) ==
    /\ Running(v, "convert")
    /\ \E started \in BOOLEAN :
        IF started
        THEN /\ pc' = [pc EXCEPT ![v] = AfterStart]
             /\ conv' = conv
        ELSE /\ pc' = [pc EXCEPT ![v] = AfterConvert("start_err")]
             /\ conv' = [conv EXCEPT ![v] = "start_err"]
    /\ UNCHANGED <<response, cssAtStart, mainVars, font_style, dl, tmp, stateVars>>
    /\ UNCHANGED <<disk, css, joinVars, cssIdx, cssResult, cssWriteErrs>>

\* the tool's exit status is the environment's; a tool that exits with
\* success has written the woff2 of an input that exists
ToolDisk(ttf_path) ==
    IF ttf_path \in disk THEN disk \cup {woff2_path(ttf_path)} ELSE disk

\* lines 478-484: process.wait() and the test of status.success()
ConvertWait(v) ==
    /\ Running(v, "wait")
    /\ \E status \in {"wait_err", "exit_fail", "success"} :
        IF status = "success"
        THEN /\ disk' = ToolDisk(output_path(v))
             /\ pc' = [pc EXCEPT ![v] = "remove"]
             /\ conv' = conv
        ELSE /\ disk' = disk
             /\ pc' = [pc EXCEPT ![v] = AfterConvert("exit_fail")]
             /\ conv' = [conv EXCEPT ![v] = "exit_fail"]
    /\ UNCHANGED <<response, cssAtStart, mainVars, font_style, dl, tmp, stateVars>>
    /\ UNCHANGED <<css, joinVars, cssIdx, cssResult, cssWriteErrs>>

\* std::fs::remove_file(ttf_path)
RemoveDisk(ttf_path) == disk \ {ttf_path}

\* lines 486-489: remove_file succeeds only on an existing file
ConvertRemove(v) ==
    /\ Running(v, "remove")
    /\ \E removed \in BOOLEAN :
        /\ removed => output_path(v) \in disk
        /\ disk' = IF removed THEN RemoveDisk(output_path(v)) ELSE disk
        /\ conv' = [conv EXCEPT ![v] = IF removed THEN "ok" ELSE "remove_err"]
        /\ pc' = [pc EXCEPT ![v] =
                    AfterConvert(IF removed THEN "ok" ELSE "remove_err")]
    /\ UNCHANGED <<response, cssAtStart, mainVars, font_style, dl, tmp, stateVars>>
    /\ UNCHANGED <<css, joinVars, cssIdx, cssResult, cssWriteErrs>>

\* a lock that never blocks
CanLockAlways == TRUE

\* Mutex::lock: blocks while another guard is alive
CanLock == mutex = "free"

Lock(v) ==
    /\ Running(v, "lock")
    /\ CanLock
    /\ mutex' = v
    /\ pc' = [pc EXCEPT ![v] = "incr"]
    /\ UNCHANGED <<response, cssAtStart, mainVars, font_style, dl, conv, tmp, progress_state>>
    /\ UNCHANGED <<disk, css, joinVars, cssIdx, cssResult, cssWriteErrs>>

\* line 305, `progress_state.downloaded_count += 1`: the read ...
IncrLoad(v) ==
    /\ Running(v, "incr")
    /\ tmp' = [tmp EXCEPT ![v] = progress_state.downloaded_count]
    /\ pc' = [pc EXCEPT ![v] = "store"]
    /\ UNCHANGED <<response, cssAtStart, mainVars, font_style, dl, conv, stateVars>>
    /\ UNCHANGED <<disk, css, joinVars, cssIdx, cssResult, cssWriteErrs>>

\* ... and the write
IncrStore(v) ==
    /\ Running(v, "store")
    /\ progress_state' =
            [progress_state EXCEPT !.downloaded_count = U16(tmp[v] + 1)]
    /\ pc' = [pc EXCEPT ![v] = "push"]
    /\ UNCHANGED <<response, cssAtStart, mainVars, font_style, dl, conv, tmp, mutex>>
    /\ UNCHANGED <<disk, css, joinVars, cssIdx, cssResult, cssWriteErrs>>

\* a push without the `result.is_ok()` test
PushedFilesAlways(v) == Append(progress_state.downloaded_files, font_style[v])

\* lines 306-308: `if result.is_ok() { downloaded_files.push(font_style) }`
PushedFiles(v) ==
    IF DownloadResult(dl[v]) = "ok"
    THEN Append(progress_state.downloaded_files, font_style[v])
    ELSE progress_state.downloaded_files

\* lines 306-314: the push and the spinner message, the guard still held
PushTag(v) ==
    /\ Running(v, "push")
    /\ progress_state' =
            [progress_state EXCEPT !.downloaded_files = PushedFiles(v)]
    /\ pc' = [pc EXCEPT ![v] = "ret"]
    /\ UNCHANGED <<response, cssAtStart, mainVars, font_style, dl, conv, tmp, mutex>>
    /\ UNCHANGED <<disk, css, joinVars, cssIdx, cssResult, cssWriteErrs>>

\* lines 316-317: `result` is returned and the guard dropped
Return(v) ==
    /\ Running(v, "ret")
    /\ mutex' = IF mutex = v THEN "free" ELSE mutex
    /\ pc' = [pc EXCEPT ![v] = "done"]
    /\ UNCHANGED <<response, cssAtStart, mainVars, font_style, dl, conv, tmp, progress_state>>
    /\ UNCHANGED <<disk, css, joinVars, cssIdx, cssResult, cssWriteErrs>>

\* a task that swallows the Err of the conversion step
TaskResultDownloadOnly(v) == DownloadResult(dl[v])

\* the value the task's JoinHandle yields
TaskResult(v) == IF conv[v] # "ok" THEN "err" ELSE DownloadResult(dl[v])

(***************************************************************************)
(* download_font_files: the join loop and the return (lines 322-354).      *)
(***************************************************************************)
Spawned == {v \in TokenPool : pc[v] # "unspawned"}

\* `download_tasks.next().await` yields a finished task; its Err is printed
Join(v) ==
    /\ pcMain = "join"
    /\ pc[v] = "done"
    /\ v \notin joined
    /\ joined' = joined \cup {v}
    /\ reported' = IF TaskResult(v) = "err" THEN reported \cup {v} ELSE reported
    /\ UNCHANGED <<response, cssAtStart, mainVars, taskVars, stateVars, disk, cssVars>>

\* the stream is exhausted when every pushed handle has been yielded
JoinFinished == joined = Spawned

Reverse(q) == [i \in 1..Len(q) |-> q[Len(q) + 1 - i]]

\* a return value in another order than the order of the pushes
ReturnedFilesReversed == Reverse(progress_state.downloaded_files)

\* line 331: progress_state.lock().unwrap().downloaded_files.clone()
ReturnedFiles == progress_state.downloaded_files

\* lines 331-354: the list is cloned under the lock and returned
ReturnFiles ==
    /\ pcMain = "join"
    /\ JoinFinished
    /\ CanLock
    /\ pipeline' = [ret |-> "ok", tags |-> ReturnedFiles]
    /\ pcMain' = "css"
    /\ UNCHANGED <<response, cssAtStart, exitCode, font_family, dirCreated, todo>>
    /\ UNCHANGED <<taskVars, stateVars, disk, joinVars, cssVars>>

\* main line 169: the `?` after download_font_files ends the process
ExitOnError ==
    /\ pcMain = "ret_err"
    /\ pcMain' = "exited"
    /\ exitCode' = 1
    /\ UNCHANGED <<response, cssAtStart, font_family, dirCreated, todo, pipeline>>
    /\ UNCHANGED <<taskVars, stateVars, disk, joinVars, cssVars>>

(***************************************************************************)
(* write_css_file_for_font (lines 357-404) and the end of main.            *)
(***************************************************************************)
\* the @font-face record of line 369; the src is
\* font_dir.join(format!("{}-{}.woff2", font_family_name, font_style))
FontFace(style) ==
    [family |-> format_font_string(family_slug),
     src |-> Path(family_name \o "-" \o DisplayStyle(style), "woff2"),
     style |-> get_style_and_weight(style)[1],
     weight |-> get_style_and_weight(style)[2]]

\* an open with truncate(true) for every record
OpenedTextTruncate(idx) == <<>>

\* an open with append(true) for every record
OpenedTextAppend(idx) == css.text

\* lines 377-389: truncate(true) for idx == 0, append(true) otherwise
OpenedText(idx) == IF idx = 0 THEN <<>> ELSE css.text

CssIo == {"ok", "open_err", "write_err"}

\* one iteration of the loop over font_styles: a failed open returns Err
\* (line 390), a failed writeln! is printed and the loop goes on (392-400)
WriteCssRecord ==
    /\ pcMain = "css"
    /\ cssIdx < Len(pipeline.tags)
    /\ \E io \in CssIo :
        IF io = "open_err"
        THEN /\ cssResult' = "err"
             /\ pcMain' = "summary"
             /\ UNCHANGED <<css, cssIdx, cssWriteErrs>>
        ELSE /\ css' = [exists |-> TRUE,
                        text |-> IF io = "ok"
                                 THEN Append(OpenedText(cssIdx),
                                             FontFace(pipeline.tags[cssIdx + 1]))
                                 ELSE OpenedText(cssIdx)]
             /\ cssWriteErrs' = IF io = "write_err"
                                THEN cssWriteErrs \cup {cssIdx}
                                ELSE cssWriteErrs
             /\ cssIdx' = cssIdx + 1
             /\ UNCHANGED <<cssResult, pcMain>>
    /\ UNCHANGED <<response, cssAtStart, exitCode, font_family, dirCreated, todo, pipeline>>
    /\ UNCHANGED <<taskVars, stateVars, disk, joinVars>>

\* line 403: Ok(css_file_path)
WriteCssDone ==
    /\ pcMain = "css"
    /\ cssIdx = Len(pipeline.tags)
    /\ cssResult' = "ok"
    /\ pcMain' = "summary"
    /\ UNCHANGED <<response, cssAtStart, exitCode, font_family, dirCreated, todo, pipeline>>
    /\ UNCHANGED <<taskVars, stateVars, disk, joinVars, css, cssIdx, cssWriteErrs>>

\* main lines 177-200: the result of the writer is printed, then Ok(())
Summary ==
    /\ pcMain = "summary"
    /\ pcMain' = "exited"
    /\ exitCode' = 0
    /\ UNCHANGED <<response, cssAtStart, font_family, dirCreated, todo, pipeline>>
    /\ UNCHANGED <<taskVars, stateVars, disk, joinVars, cssVars>>

Next ==
    \/ FetchFontData
    \/ CreateDir
    \/ BeginPipeline
    \/ SpawnNext
    \/ SpawnDone
    \/ \E v \in TokenPool : Download(v)
    \/ \E v \in TokenPool : ConvertStart(v)
    \/ \E v \in TokenPool : ConvertWait(v)
    \/ \E v \in TokenPool : ConvertRemove(v)
    \/ \E v \in TokenPool : Lock(v)
    \/ \E v \in TokenPool : IncrLoad(v)
    \/ \E v \in TokenPool : IncrStore(v)
    \/ \E v \in TokenPool : PushTag(v)
    \/ \E v \in TokenPool : Return(v)
    \/ \E v \in TokenPool : Join(v)
    \/ ReturnFiles
    \/ ExitOnError
    \/ WriteCssRecord
    \/ WriteCssDone
    \/ Summary

Spec == Init /\ [][Next]_vars

(***************************************************************************)
(* Properties.                                                             *)
(***************************************************************************)
Range(q) == {q[i] : i \in 1..Len(q)}

NoDuplicates(q) == \A i, j \in 1..Len(q) : q[i] = q[j] => i = j

\* the task of v downloaded and converted its file (download_font_file and
\* convert_to_woff2 both returned Ok)
FullySucceeded(v) == DownloadResult(dl[v]) = "ok" /\ conv[v] = "ok"

\* the task of v has failed in one of its steps
TaskFailed(v) ==
    \/ dl[v] # "none" /\ DownloadResult(dl[v]) = "err"
    \/ conv[v] \notin {"none", "ok"}

\* the Style Mapper does not know the token
Unmapped(token) == ~transpile_font_weight(token).ok

\* C1: after the join loop has received every task, downloaded_count equals
\* the number N of variants of the family, whatever tasks failed.
C1_CounterEqualsVariants ==
    pipeline.ret = "ok" =>
        progress_state.downloaded_count = Cardinality(font_family)

\* C2: when the family holds a token the Style Mapper does not know, only that
\* variant fails: every other variant is launched and run to its end, the
\* pipeline returns its tags and the process ends with exit code 0.
C2_UnknownTokenFailsOnlyItself ==
    (pcMain = "exited" /\ dirCreated /\ \E t \in font_family : Unmapped(t)) =>
        /\ pipeline.ret = "ok"
        /\ exitCode = 0
        /\ \A v \in font_family : ~Unmapped(v) => pc[v] = "done"
        /\ \A v \in font_family :
              (~Unmapped(v) /\ FullySucceeded(v)) =>
                  font_style[v] \in Range(pipeline.tags)

\* C3: a failed task changes nothing for its siblings and never makes the
\* pipeline or the run fail: an Err of download_font_files comes from a token
\* without mapping only; a pipeline that returned Ok returned exactly the tags
\* of the tasks that fully succeeded and has printed an error for every other
\* task, and the process then ends with exit code 0.
C3_TaskFailureIsolated ==
    /\ pipeline.ret = "err" => \E t \in font_family : Unmapped(t)
    /\ pipeline.ret = "ok" =>
          /\ Range(pipeline.tags) =
                {font_style[v] : v \in {w \in Spawned : FullySucceeded(w)}}
          /\ reported = {v \in Spawned : ~FullySucceeded(v)}
          /\ pcMain = "exited" => exitCode = 0

\* a run in which one task failed, a sibling succeeded and the process ended
C3_Witness ==
    /\ pcMain = "exited"
    /\ pipeline.ret = "ok"
    /\ \E v, w \in Spawned :
          /\ TaskFailed(v)
          /\ FullySucceeded(w)
          /\ pipeline.tags = <<font_style[w]>>

\* C4: whenever download_font_files has returned, with Ok or with Err, every
\* task it has spawned has run to its end.
C4_JoinPoint ==
    pipeline.ret # "none" => \A v \in Spawned : pc[v] = "done"

\* C5: downloaded_files never holds a tag twice, never holds the tag of a task
\* whose download or conversion failed, and every tag in it was pushed by a
\* task whose download and conversion both succeeded.
C5_TagsOnlyOfConverted ==
    LET tags == progress_state.downloaded_files IN
    /\ NoDuplicates(tags)
    /\ \A v \in Spawned : TaskFailed(v) => font_style[v] \notin Range(tags)
    /\ \A i \in 1..Len(tags) :
          \E v \in Spawned : font_style[v] = tags[i] /\ FullySucceeded(v)

\* one tag is in the list and a sibling whose download failed, and whose
\* conversion succeeded, has left the section without pushing
C5_Witness ==
    /\ Len(progress_state.downloaded_files) = 1
    /\ \E v \in Spawned :
          /\ DownloadResult(dl[v]) = "err"
          /\ conv[v] = "ok"
          /\ pc[v] = "done"

\* the task of v holds the MutexGuard (lines 304-317)
InSection(v) == pc[v] \in {"incr", "store", "push", "ret"}

\* the tasks that have executed the write of `downloaded_count += 1`
Incremented ==
    {v \in Spawned : pc[v] \in {"push", "ret"} \/ (pc[v] = "done" /\ conv[v] = "ok")}

\* C6: no two tasks hold the guard at once, the counter equals the number of
\* tasks that have incremented it (no increment is lost), and the counter is
\* never smaller than the number of pushed tags.
C6_MutualExclusion ==
    /\ \A v, w \in Spawned : (InSection(v) /\ InSection(w)) => v = w
    /\ \A v \in Spawned : InSection(v) => mutex = v
    /\ progress_state.downloaded_count = Cardinality(Incremented)
    /\ progress_state.downloaded_count >= Len(progress_state.downloaded_files)

\* one task is between the read and the write of the counter while a second
\* one waits for the lock, after a first increment
C6_Witness ==
    \E v, w \in Spawned :
        /\ pc[v] = "store"
        /\ pc[w] = "lock"
        /\ mutex = v

\* the records write_css_file_for_font is to write for a list of tags
RecordsOf(tags) == [i \in 1..Len(tags) |-> FontFace(tags[i])]

\* the writer has returned (or the process has ended after it)
CssWritten == pipeline.ret = "ok" /\ pcMain \in {"summary", "exited"}

\* C7 as stated: after the writer, fonts.css holds exactly one record per tag
\* the pipeline returned, in the order in which the tasks pushed their tags.
C7_StylesheetFollowsPushes ==
    CssWritten =>
        /\ pipeline.tags = progress_state.downloaded_files
        /\ css.text = RecordsOf(progress_state.downloaded_files)

\* C7 amended: the same, when at least one tag was returned and no open and
\* no write of fonts.css failed.
C7_StylesheetFollowsPushesIfWritten ==
    (CssWritten /\ cssResult = "ok" /\ cssWriteErrs = {}
        /\ Len(pipeline.tags) > 0) =>
        /\ pipeline.tags = progress_state.downloaded_files
        /\ css.exists
        /\ css.text = RecordsOf(progress_state.downloaded_files)

\* two records were written, the heavier weight first: the order of the pushes
\* is not the order of the weights
C7_Witness ==
    /\ CssWritten
    /\ cssResult = "ok"
    /\ cssWriteErrs = {}
    /\ Len(css.text) = 2
    /\ css.text[1].weight > css.text[2].weight
    /\ css.text = RecordsOf(progress_state.downloaded_files)

\* C8: a catalog answer with a non-success status is fatal: the font
\* directory is not created, no task is spawned, fonts.css is not touched and
\* the process ends with a non-zero exit code.
C8_BadStatusIsFatal ==
    (response.status # 0 /\ response.status # 200) =>
        /\ pcMain \in {"fetch", "exited"}
        /\ ~dirCreated
        /\ Spawned = {}
        /\ cssIdx = 0 /\ cssResult = "none"
        /\ css.text \in {<<>>, StaleCss}
        /\ pcMain = "exited" => exitCode \notin {-1, 0}

\* the catalog answered 404 with a body that would parse, and the run ended
C8_Witness ==
    /\ response.status = 404
    /\ response.body = "items"
    /\ response.files # {}
    /\ pcMain = "exited"
    /\ exitCode = 1

\* the catalog's grammar of variant tokens: a weight, "italic" appended for
\* the italic cut, with "regular" and "italic" standing for weight 400
CatalogWeights == {100 * k : k \in 1..9}

TokenOf(weight, italic) ==
    IF weight = 400
    THEN (IF italic THEN "italic" ELSE "regular")
    ELSE ToString(weight) \o (IF italic THEN "italic" ELSE "")

CatalogTokens == {TokenOf(w, i) : w \in CatalogWeights, i \in BOOLEAN}

WeightTable ==
    [token \in CatalogTokens |->
        CHOOSE w \in CatalogWeights : \E i \in BOOLEAN : TokenOf(w, i) = token]

WeightOfToken(token) == WeightTable[token]

ItalicTokens == {TokenOf(w, TRUE) : w \in CatalogWeights}

ItalicToken(token) == token \in ItalicTokens

\* C9: for each of the 18 catalog tokens transpile_font_weight returns a style
\* whose weight (get_style_and_weight) is the token's weight, one of 100..900,
\* and whose slant is italic exactly for the italic tokens; for every other
\* token it returns Err.  Stated of the tokens of the catalog's answer and of
\* the styles the spawn loop handed to the tasks.
C9_StyleMapperTotal ==
    /\ Cardinality(CatalogTokens) = 18
    /\ \A t \in response.files :
          LET r == transpile_font_weight(t) IN
          IF t \in CatalogTokens
          THEN /\ r.ok
               /\ get_style_and_weight(r.val)[2] = WeightOfToken(t)
               /\ get_style_and_weight(r.val)[2] \in CatalogWeights
               /\ get_style_and_weight(r.val)[1] =
                      (IF ItalicToken(t) THEN "italic" ELSE "normal")
          ELSE ~r.ok
    /\ \A v \in Spawned :
          /\ v \in CatalogTokens
          /\ get_style_and_weight(font_style[v]) =
                <<IF ItalicToken(v) THEN "italic" ELSE "normal", WeightOfToken(v)>>
    /\ pipeline.ret = "err" => \E t \in font_family : t \notin CatalogTokens

\* the loop has mapped "700italic" to BoldItalic for a task and has then
\* returned the Err of "999", a token outside the table
C9_Witness ==
    /\ response.files = {"700italic", "999"}
    /\ pc["700italic"] # "unspawned"
    /\ font_style["700italic"] = BoldItalic
    /\ pipeline.ret = "err"

\* the run of a family with the given variant tokens has ended, every download
\* and every conversion that was started succeeded, and so did every open and
\* write of fonts.css
ScenarioRan(tokens) ==
    /\ response.status = 200
    /\ response.files = tokens
    /\ dirCreated
    /\ pcMain = "exited"
    /\ \A v \in Spawned : dl[v] = "ok" /\ conv[v] = "ok"
    /\ cssResult # "err"
    /\ cssWriteErrs = {}

\* two tags named regular and bold-italic, two records 400/normal, 700/italic
TwoVariantsResult ==
    /\ pipeline.ret = "ok"
    /\ Len(pipeline.tags) = 2
    /\ {DisplayStyle(pipeline.tags[i]) : i \in 1..2} = {"regular", "bold-italic"}
    /\ css.exists
    /\ Len(css.text) = 2
    /\ {<<css.text[i].weight, css.text[i].style>> : i \in 1..2}
          = {<<400, "normal">>, <<700, "italic">>}
    /\ \A i \in 1..2 : css.text[i].family = "Example Sans"

\* C10 as stated: the family "Example Sans" with the variants "400" and
\* "700italic", everything succeeding, gives the tags regular and bold-italic
\* and the records 400/normal and 700/italic.
C10_ExampleSans400 ==
    ScenarioRan({"400", "700italic"}) => TwoVariantsResult

\* C10 amended: the same for the variants "regular" (the catalog's token of
\* weight 400) and "700italic".
C10_ExampleSansRegular ==
    ScenarioRan({"regular", "700italic"}) => TwoVariantsResult

C10_Witness ==
    /\ ScenarioRan({"regular", "700italic"})
    /\ Len(css.text) = 2
    /\ exitCode = 0

\* C11: a variant whose download URL answered with a non-OK status is a failed
\* variant: its tag is never pushed, whatever the conversion step does, and
\* the join loop prints an error for it.
C11_BadStatusIsFailure ==
    \A v \in Spawned :
        dl[v] = "bad_status" =>
            /\ font_style[v] \notin Range(progress_state.downloaded_files)
            /\ v \in joined => v \in reported

\* C12: for an answer with status OK whose body is structurally invalid or
\* whose items array is empty, fetch_font_data returns an error value: main
\* ends through its `?` with exit code 1 and nothing is written to disk.
C12_EmptyOrInvalidIsParseError ==
    (response.status = 200 /\ response.body \in {"invalid", "empty_items"}
        /\ pcMain # "fetch") =>
        /\ pcMain = "exited"
        /\ exitCode = 1
        /\ ~dirCreated /\ disk = {}

\* the records write_css_file_for_font has tried to write: those its loop has
\* passed, and the one whose open made it return
CssAttempted == cssIdx + (IF cssResult = "err" THEN 1 ELSE 0)

\* C13: a failure at one record, in the open of fonts.css or in the write, is
\* printed and does not stop the writer: when it has returned, it has tried
\* to write the record of every tag.
C13_WriterTriesEveryRecord ==
    CssWritten => CssAttempted = Len(pipeline.tags)

\* C14: downloaded_count changes by steps of +1 only, each made by one task
\* passing its increment, so it never decreases and no task increments it
\* twice; it never exceeds the number of variants; and when the pipeline
\* returns it has reached totalVariants.
C14_CounterReachesTotal ==
    /\ [][ \/ progress_state'.downloaded_count = progress_state.downloaded_count
           \/ /\ progress_state'.downloaded_count =
                    progress_state.downloaded_count + 1
              /\ \E v \in Spawned : pc[v] = "store" /\ pc'[v] = "push" ]_vars
    /\ [](progress_state.downloaded_count <= Cardinality(response.files))
    /\ [](pipeline.ret = "ok" =>
            progress_state.downloaded_count = Cardinality(font_family))

\* the records a run is to leave in fonts.css, from what the claim fixes: the
\* family's tokens and the outcome of each variant's download and conversion
ExpectedRecords ==
    IF \E t \in response.files : Unmapped(t)
    THEN {}
    ELSE {FontFace(font_weight_mappings[t]) :
            t \in {u \in response.files :
                      DownloadResult(dl[u]) = "ok" /\ conv[u] = "ok"}}

\* a run of the pipeline on a directory without fonts.css has ended
CleanRunEnded == pcMain = "exited" /\ dirCreated /\ ~cssAtStart

\* C15 as stated: on a clean directory the set of records of fonts.css after
\* the run is fixed by the family and by the outcomes of the downloads and
\* conversions, so two such runs agree on it under every interleaving.
C15_RecordsFixedByOutcomes ==
    CleanRunEnded => Range(css.text) = ExpectedRecords

\* C15 amended: the same, for runs in which no open and no write of fonts.css
\* failed.
C15_RecordsFixedByOutcomesIfWritten ==
    (CleanRunEnded /\ cssResult # "err" /\ cssWriteErrs = {}) =>
        Range(css.text) = ExpectedRecords

\* a clean run in which both variants succeeded and the heavier one pushed
\* its tag first
C15_Witness ==
    /\ CleanRunEnded
    /\ cssResult = "ok"
    /\ cssWriteErrs = {}
    /\ Len(css.text) = 2
    /\ css.text[1].weight > css.text[2].weight
    /\ Range(css.text) = ExpectedRecords

\* C16: the conversion tool is run for a task only after that task's download
\* succeeded: for a task whose download_font_file returned Err the tool is
\* never run.
C16_ConvertOnlyAfterDownload ==
    \A v \in Spawned :
        (dl[v] # "none" /\ DownloadResult(dl[v]) = "err") =>
            /\ conv[v] \in {"none", "start_err"}
            /\ pc[v] \notin {"wait", "remove"}

\* C17: the downloaded TTF file is deleted only after the conversion process
\* has been waited for and has exited with success: a file the download
\* created is on disk in every state in which its conversion has not been
\* completed with success (not started, in flight, or failed), and once it is
\* gone the WOFF2 file of the variant is there.
C17_DeleteOnlyAfterSuccess ==
    \A v \in Spawned :
        /\ (dl[v] \notin {"none", "send_err"} /\ conv[v] # "ok") =>
                output_path(v) \in disk
        /\ (dl[v] # "none" /\ pc[v] # "download" /\ output_path(v) \notin disk) =>
                \/ dl[v] = "send_err"
                \/ conv[v] = "ok" /\ woff2_path(output_path(v)) \in disk

\* one task converted and its TTF is gone, another's tool exited with failure
\* and its TTF is still there
C17_Witness ==
    \E v, w \in Spawned :
        /\ conv[v] = "ok"
        /\ output_path(v) \notin disk
        /\ woff2_path(output_path(v)) \in disk
        /\ conv[w] = "exit_fail"
        /\ output_path(w) \in disk

\* C18: every launched task eventually finishes and download_font_files
\* eventually returns.  Tasks run until the process ends and nothing runs
\* after it, so the claim is refuted by a finite run: when the process has
\* ended, download_font_files has returned if it was called and no launched
\* task is left before its end.
C18_LaunchedTasksFinish ==
    pcMain = "exited" =>
        /\ dirCreated => pipeline.ret # "none"
        /\ \A v \in Spawned : pc[v] = "done"

\* the files the task of v writes, converts or deletes
FilesOf(v) == LET p == output_path(v) IN {p, woff2_path(p)}

\* the display names of the styles of the 18 tokens of the table
StyleNames == {DisplayStyle(font_weight_mappings[t]) : t \in KnownTokens}

\* C19: distinct variant tokens map to distinct style display names, so the
\* tasks launched by one run have pairwise distinct intermediate paths and
\* pairwise distinct converted paths, and every file of the font directory is
\* the file of exactly one task.
C19_DisjointPaths ==
    /\ Cardinality(StyleNames) = Cardinality(KnownTokens)
    /\ LET files == [v \in Spawned |-> FilesOf(v)] IN
          /\ \A v, w \in Spawned : v # w => files[v] \cap files[w] = {}
          /\ \A f \in disk : Cardinality({v \in Spawned : f \in files[v]}) = 1

\* two tasks of one run, the one's intermediate file and the other's converted
\* file both in the directory
C19_Witness ==
    \E v, w \in Spawned :
        /\ v # w
        /\ output_path(v) \in disk
        /\ woff2_path(output_path(w)) \in disk
        /\ output_path(w) \notin disk

\* C20: write_css_file_for_font called with k >= 1 tags truncates fonts.css
\* for the first record and appends for each later one: with no failed open
\* and no failed write, after the i-th iteration the file holds exactly the
\* records of the first i tags in order, after the call exactly the k records,
\* and nothing of what an earlier run left in it.
C20_TruncateThenAppend ==
    /\ (pcMain = "css" /\ cssIdx >= 1 /\ cssWriteErrs = {}) =>
          css.text = RecordsOf(SubSeq(pipeline.tags, 1, cssIdx))
    /\ (CssWritten /\ cssResult = "ok" /\ cssWriteErrs = {}
          /\ Len(pipeline.tags) >= 1) =>
          /\ css.text = RecordsOf(pipeline.tags)
          /\ Range(css.text) \cap Range(StaleCss) = {}

\* the writer has written two records over the file of an earlier run
C20_Witness ==
    /\ cssAtStart
    /\ CssWritten /\ cssResult = "ok" /\ cssWriteErrs = {}
    /\ Len(pipeline.tags) = 2
    /\ css.text = RecordsOf(pipeline.tags)

\* the tasks whose conversion step, the removal of the TTF included, returned Ok
Converted == {v \in Spawned : conv[v] = "ok"}

\* C21: after the join the counter counts exactly the tasks whose conversion
\* step returned success, downloaded_files holds exactly the tags of the tasks
\* whose download and conversion both returned success, each once, and every
\* step that changes ProgressState is the increment or the push of a task
\* whose conversion step returned success: a task whose conversion fails
\* leaves ProgressState as it was.
C21_ProgressFollowsConversion ==
    /\ [](pipeline.ret = "ok" =>
            LET pushed == {v \in Spawned : FullySucceeded(v)} IN
            /\ progress_state.downloaded_count = Cardinality(Converted)
            /\ Range(progress_state.downloaded_files) =
                    {font_style[v] : v \in pushed}
            /\ Len(progress_state.downloaded_files) = Cardinality(pushed))
    /\ [][progress_state' # progress_state =>
            \E v \in Converted :
                /\ pc[v] \in {"store", "push"}
                /\ pc'[v] # pc[v]]_vars

\* after the join: one task converted after a
\* failed download (counted, not pushed), one failed at the removal of its TTF
\* (neither counted nor pushed)
C21_Witness ==
    /\ pipeline.ret = "ok"
    /\ progress_state = [downloaded_count |-> 1, downloaded_files |-> <<>>]
    /\ \E v, w \in Spawned :
          /\ conv[v] = "ok" /\ DownloadResult(dl[v]) = "err"
          /\ conv[w] = "remove_err" /\ DownloadResult(dl[w]) = "ok"

\* the run has gone through the pipeline and the writer and has ended with
\* exit code 0
RunCompleted == CssWritten /\ pcMain = "exited" /\ exitCode = 0

\* C22: after a completed run fonts.css and the font directory agree: the
\* file every record names is in the directory, and every variant whose WOFF2
\* file this run produced has its record.  Stated for a run that started
\* without a fonts.css and in which no open and no write of it failed.
C22_StylesheetAgreesWithDisk ==
    (RunCompleted /\ ~cssAtStart /\ cssResult = "ok" /\ cssWriteErrs = {}) =>
        /\ \A i \in 1..Len(css.text) : css.text[i].src \in disk
        /\ \A v \in Spawned :
              woff2_path(output_path(v)) \in disk =>
                  FontFace(font_style[v]) \in Range(css.text)

\* fonts.css is as it was when the run started
CssUntouched ==
    css = [exists |-> cssAtStart, text |-> IF cssAtStart THEN StaleCss ELSE <<>>]

\* C23: when no variant of the family succeeded, write_css_file_for_font is
\* called with the empty tag sequence, returns Ok, and fonts.css is neither
\* created nor truncated: a fonts.css of an earlier run keeps its content.
C23_EmptyRunLeavesStylesheet ==
    (pcMain = "exited" /\ dirCreated
        /\ \A v \in font_family : ~FullySucceeded(v)) =>
        /\ pipeline = [ret |-> "ok", tags |-> <<>>]
        /\ cssIdx = 0
        /\ cssResult = "ok"
        /\ CssUntouched

====
